---- MODULE Spec2Model ----
(***************************************************************************)
(* PharmaSpec Validator: the request handlers of backend/app/api, the      *)
(* Celery tasks of backend/app/tasks.py and the database rows they read    *)
(* and write, as a state machine.                                          *)
(*                                                                         *)
(* A table is a sequence of rows and a row's id is its index.  A nullable  *)
(* timestamp (deleted_at) is modelled by whether it is set.  Free text is  *)
(* drawn from Texts.  A handler that awaits nothing another request can    *)
(* observe half-done is one action; analyze_document and the extraction    *)
(* task, whose commits interleave with other requests, are split at their  *)
(* commits.                                                                *)
(***************************************************************************)
EXTENDS Integers, Sequences, FiniteSets, TLC

VARIABLES
    projects,        \* table projects
    project_access,  \* table project_access: set of <<user, project>>
    documents,       \* table documents
    requirements,    \* table requirements
    matrix_entries,  \* table matrix_entries
    audit_logs,      \* table audit_logs, in insertion order
    calls,           \* analyze_document requests in flight, by slot
    tasks,           \* process_document task messages, by message id
    last,            \* the response of the request that completed last
    committed,       \* history: the domain mutations committed so far
    acked,           \* history: the entities mutated by requests that returned 2xx
    attempts,        \* history: per document, the outcomes of its extraction attempts
    settings,        \* core/config.py: the provider configuration of the deployment
    users            \* table users: role and is_active of each user

vars == <<projects, project_access, documents, requirements, matrix_entries,
          audit_logs, calls, tasks, last, committed, acked, attempts, settings, users>>

db == <<projects, project_access, documents, requirements, matrix_entries, audit_logs>>

-----------------------------------------------------------------------------
(* Bounds of the model *)

MaxRequests == 3
MaxProjects == 2
MaxDocuments == 2
MaxRequirements == 2
MaxRedeliveries == 1

-----------------------------------------------------------------------------
(* Values *)

NULL == "null"

Users == {"admin", "eng1", "eng2"}

\* core/seed.py: the default administrator and engineers, all active
SeededUsers ==
    [u \in Users |-> [role |-> IF u = "admin" THEN "admin" ELSE "engineer",
                      is_active |-> TRUE]]

\* User.role
role(u) == users[u].role

\* User.scopes: the scopes a token of the user carries
scopes(u) ==
    IF role(u) = "engineer" THEN {"me", "engineer"}
    ELSE IF role(u) = "admin" THEN {"me", "engineer", "admin", "audit"}
    ELSE {"me"}

Texts == {"a", "b"}

ComplianceValues == {"Compliant", "Non-Compliant", "Partial", "Requires Clarification"}

ReviewValues == {"pending", "reviewed", "approved"}

Ids(table) == 1..Len(table)

Live(table) == {i \in Ids(table) : ~table[i].deleted_at}

\* DELETE FROM table WHERE id = i
SetDeleted_removing(table, i) ==
    SubSeq(table, 1, i - 1) \o SubSeq(table, i + 1, Len(table))

\* row.deleted_at = func.now()
SetDeleted(table, i) == [table EXCEPT ![i].deleted_at = TRUE]

\* A new matrix_entries row: review_status pending, nothing approved
EntryRow(r, d, u, compliance) ==
    [requirement_id |-> r, document_id |-> d, compliance_status |-> compliance,
     comments |-> "a", review_status |-> "pending", reviewer_comments |-> NULL,
     approved_by |-> NULL, created_by |-> u, last_modified_by |-> NULL,
     deleted_at |-> FALSE]

-----------------------------------------------------------------------------
(* deps.py *)

\* get_current_user with Security(scopes=["engineer"]): the token's scopes
\* must hold every required scope
get_current_user(u, required) == required \subseteq scopes(u)

\* deps.py imports only `select` from sqlalchemy: the name and_ that
\* verify_project_access uses is not bound in the module
and_defined == FALSE

verify_project_access_NoAdminBranch(u, p) ==
    IF p \notin Live(projects) THEN "NotFound"
    ELSE IF projects[p].owner_id = u THEN "Allowed"
    ELSE IF ~projects[p].password_hash THEN "Allowed"
    ELSE IF ~and_defined THEN "ServerError"
    ELSE IF <<u, p>> \in project_access THEN "Allowed"
    ELSE "PasswordRequired"

verify_project_access(u, p) ==
    IF p \notin Live(projects) THEN "NotFound"
    ELSE IF role(u) = "admin" THEN "Allowed"
    ELSE IF projects[p].owner_id = u THEN "Allowed"
    ELSE IF ~projects[p].password_hash THEN "Allowed"
    \* building the ProjectAccess query evaluates and_(...): NameError
    ELSE IF ~and_defined THEN "ServerError"
    ELSE IF <<u, p>> \in project_access THEN "Allowed"
    ELSE "PasswordRequired"

verify_project_write_access_NoAdminCheck(u, p) ==
    IF p \notin Live(projects) THEN "NotFound" ELSE "Allowed"

verify_project_write_access(u, p) ==
    IF p \notin Live(projects) THEN "NotFound"
    ELSE IF role(u) = "admin" THEN "AccessDenied"
    ELSE "Allowed"

\* AuditLog.create_log: the row log_audit_event builds
create_log(u, action, etype, eid, details) ==
    [user_id |-> u, action |-> action, entity_type |-> etype,
     entity_id |-> eid, details |-> details]

log_audit_event_dropped(logs, u, action, etype, eid, details) == logs

log_audit_event_replacing(logs, u, action, etype, eid, details) ==
    <<create_log(u, action, etype, eid, details)>>

\* log_audit_event: db.add(audit_log); await db.commit()
log_audit_event(logs, u, action, etype, eid, details) ==
    Append(logs, create_log(u, action, etype, eid, details))

Mutation(action, etype, eid) == [action |-> action, entity_type |-> etype, entity_id |-> eid]

Entity(etype, eid) == [entity_type |-> etype, entity_id |-> eid]

\* Before any request is answered
NoLast == [n |-> 0, user |-> NULL, op |-> NULL, project |-> 0, status |-> NULL]

Response(u, op, p, status) ==
    [n |-> last.n + 1, user |-> u, op |-> op, project |-> p, status |-> status]

\* A request that is refused before it touches the database
Refuse(u, op, p, status) ==
    /\ last' = Response(u, op, p, status)
    /\ UNCHANGED <<db, calls, tasks, committed, acked, attempts, settings, users>>

Details(reason, field, old, new, changes) ==
    [reason |-> reason, field |-> field, old_value |-> old, new_value |-> new,
     changes |-> changes]

NoDetails == Details(NULL, NULL, NULL, NULL, {})

CanRequest == last.n < MaxRequests

\* What a handler leaves behind once its domain change is committed: the
\* audit row and a 2xx, or, when the audit INSERT/COMMIT raises, a 500 with
\* the change already committed
Audited(u, op, p, action, etype, eid, details, audit_ok) ==
    /\ committed' = committed \cup {Mutation(action, etype, eid)}
    /\ IF audit_ok
       THEN /\ audit_logs' = log_audit_event(audit_logs, u, action, etype, eid, details)
            /\ acked' = acked \cup {Entity(etype, eid)}
            /\ last' = Response(u, op, p, "OK")
       ELSE /\ UNCHANGED <<audit_logs, acked>>
            /\ last' = Response(u, op, p, "ServerError")

-----------------------------------------------------------------------------
(* api/v1/projects.py: projects *)

create_project(u, pw, name, audit_ok) ==
    /\ CanRequest
    /\ get_current_user(u, {"engineer"})
    /\ Len(projects) < MaxProjects
    /\ LET id == Len(projects) + 1 IN
       /\ projects' = Append(projects,
              [owner_id |-> u, password_hash |-> pw, name |-> name,
               status |-> "a", deleted_at |-> FALSE, deleted_before_cutoff |-> FALSE])
       /\ Audited(u, "create_project", id, "PROJECT_CREATED", "project", id,
                  NoDetails, audit_ok)
    /\ UNCHANGED <<project_access, documents, requirements, matrix_entries,
                   calls, tasks, attempts, settings, users>>

\* The fields an update changes, in the order the handler tests them:
\* a field is changed when the request gives it and it differs
Changed(row, data, fields) ==
    SelectSeq(fields, LAMBDA f : data[f] # NULL /\ data[f] # row[f])

Apply(row, data, fields) ==
    [f \in DOMAIN row |->
        IF \E i \in 1..Len(fields) : fields[i] = f THEN data[f] ELSE row[f]]

RECURSIVE FieldRows(_, _, _, _, _, _)
\* update_project: one audit row per changed field
FieldRows(logs, u, action, etype, eid, changes) ==
    IF changes = <<>> THEN logs
    ELSE FieldRows(
            log_audit_event(logs, u, action, etype, eid,
                Details(NULL, Head(changes).field, Head(changes).old, Head(changes).new, {})),
            u, action, etype, eid, Tail(changes))

ChangeList(row, data, changed) ==
    [i \in 1..Len(changed) |->
        [field |-> changed[i], old |-> row[changed[i]], new |-> data[changed[i]]]]

ProjectFields == <<"name", "status">>

update_project(u, p, data, audit_ok) ==
    /\ CanRequest
    /\ get_current_user(u, {"engineer"})
    /\ LET access == verify_project_write_access(u, p) IN
       IF access # "Allowed" THEN Refuse(u, "update_project", p, access)
       ELSE LET changed == Changed(projects[p], data, ProjectFields) IN
            IF changed = <<>> THEN Refuse(u, "update_project", p, "OK")
            ELSE
              /\ projects' = [projects EXCEPT ![p] = Apply(@, data, changed)]
              /\ committed' = committed \cup {Mutation("PROJECT_UPDATED", "project", p)}
              /\ IF audit_ok
                 THEN /\ audit_logs' = FieldRows(audit_logs, u, "PROJECT_UPDATED", "project", p,
                                          ChangeList(projects[p], data, changed))
                      /\ acked' = acked \cup {Entity("project", p)}
                      /\ last' = Response(u, "update_project", p, "OK")
                 ELSE /\ UNCHANGED <<audit_logs, acked>>
                      /\ last' = Response(u, "update_project", p, "ServerError")
              /\ UNCHANGED <<project_access, documents, requirements, matrix_entries,
                             calls, tasks, attempts, settings, users>>

delete_project(u, p, audit_ok) ==
    /\ CanRequest
    /\ get_current_user(u, {"engineer"})
    /\ LET access == verify_project_write_access(u, p) IN
       IF access # "Allowed" THEN Refuse(u, "delete_project", p, access)
       ELSE
         /\ projects' = SetDeleted(projects, p)
         /\ Audited(u, "delete_project", p, "PROJECT_DELETED", "project", p,
                    NoDetails, audit_ok)
         /\ UNCHANGED <<project_access, documents, requirements, matrix_entries,
                        calls, tasks, attempts, settings, users>>

access_records_unconditional(rows, u, p, verified) == rows \cup {<<u, p>>}

\* The ProjectAccess rows a verification leaves: the row of the pair is
\* added (if it is not there) only past the password check
access_records(rows, u, p, verified) ==
    IF verified THEN rows \cup {<<u, p>>} ELSE rows

\* The ProjectAccess row is committed first; the audit row commits after it
verify_project_password(u, p, correct, audit_ok) ==
    /\ CanRequest
    /\ get_current_user(u, {"engineer"})
    /\ IF p \notin Live(projects) THEN Refuse(u, "verify_project_password", p, "NotFound")
       ELSE IF ~projects[p].password_hash
       THEN Refuse(u, "verify_project_password", p, "BadRequest")
       ELSE IF ~correct
       THEN /\ IF audit_ok
               THEN /\ audit_logs' = log_audit_event(audit_logs, u,
                                         "PROJECT_PASSWORD_VERIFY_FAILED", "project", p, NoDetails)
                    /\ last' = Response(u, "verify_project_password", p, "Unauthorized")
               ELSE /\ UNCHANGED audit_logs
                    /\ last' = Response(u, "verify_project_password", p, "ServerError")
            /\ project_access' = access_records(project_access, u, p, FALSE)
            /\ UNCHANGED <<projects, documents, requirements, matrix_entries,
                           calls, tasks, committed, acked, attempts, settings, users>>
       ELSE /\ project_access' = access_records(project_access, u, p, TRUE)
            /\ IF audit_ok
               THEN /\ audit_logs' = log_audit_event(audit_logs, u,
                                         "PROJECT_PASSWORD_VERIFIED", "project", p, NoDetails)
                    /\ last' = Response(u, "verify_project_password", p, "OK")
               ELSE /\ UNCHANGED audit_logs
                    /\ last' = Response(u, "verify_project_password", p, "ServerError")
            /\ UNCHANGED <<projects, documents, requirements, matrix_entries,
                           calls, tasks, committed, acked, attempts, settings, users>>

\* A read: the verify_project_access dependency decides, the handler selects
get_project(u, p) ==
    /\ CanRequest
    /\ get_current_user(u, {"engineer"})
    /\ LET access == verify_project_access(u, p) IN
       Refuse(u, "get_project", p, IF access = "Allowed" THEN "OK" ELSE access)

-----------------------------------------------------------------------------
(* api/v1/projects.py: documents *)

\* process_document_task.delay(document.id)
delay(queue, d) ==
    Append(queue, [document_id |-> d, retries |-> 0, pc |-> "queued", redelivery |-> FALSE])

upload_document(u, p, valid, audit_ok) ==
    /\ CanRequest
    /\ get_current_user(u, {"engineer"})
    /\ LET access == verify_project_write_access(u, p) IN
       IF access # "Allowed" THEN Refuse(u, "upload_document", p, access)
       ELSE IF ~valid THEN Refuse(u, "upload_document", p, "BadRequest")
       ELSE
         /\ Len(documents) < MaxDocuments
         /\ LET id == Len(documents) + 1 IN
            /\ documents' = Append(documents,
                   [project_id |-> p, extraction_status |-> "pending",
                    extracted_json |-> FALSE, extraction_error |-> FALSE,
                    deleted_at |-> FALSE])
            /\ Audited(u, "upload_document", p, "DOCUMENT_UPLOADED", "document", id,
                       NoDetails, audit_ok)
            /\ tasks' = IF audit_ok THEN delay(tasks, id) ELSE tasks
            /\ attempts' = attempts \o <<<<>>>>
         /\ UNCHANGED <<projects, project_access, requirements, matrix_entries, calls, settings, users>>

delete_document(u, p, d, audit_ok) ==
    /\ CanRequest
    /\ get_current_user(u, {"engineer"})
    /\ LET access == verify_project_write_access(u, p) IN
       IF access # "Allowed" THEN Refuse(u, "delete_document", p, access)
       ELSE IF ~(d \in Live(documents) /\ documents[d].project_id = p)
       THEN Refuse(u, "delete_document", p, "NotFound")
       ELSE
         /\ documents' = SetDeleted(documents, d)
         /\ Audited(u, "delete_document", p, "DOCUMENT_DELETED", "document", d,
                    NoDetails, audit_ok)
         /\ UNCHANGED <<projects, project_access, requirements, matrix_entries,
                        calls, tasks, attempts, settings, users>>

-----------------------------------------------------------------------------
(* api/v1/projects.py and api/v1/requirements.py: requirements *)

SameRequirementId(p, rid) ==
    {r \in Live(requirements) :
        requirements[r].project_id = p /\ requirements[r].requirement_id = rid}

create_requirement(u, p, rid, audit_ok) ==
    /\ CanRequest
    /\ get_current_user(u, {"engineer"})
    /\ LET access == verify_project_write_access(u, p) IN
       IF access # "Allowed" THEN Refuse(u, "create_requirement", p, access)
       \* scalar_one_or_none raises MultipleResultsFound on two rows
       ELSE IF Cardinality(SameRequirementId(p, rid)) > 1
       THEN Refuse(u, "create_requirement", p, "ServerError")
       ELSE IF SameRequirementId(p, rid) # {}
       THEN Refuse(u, "create_requirement", p, "BadRequest")
       ELSE
         /\ Len(requirements) < MaxRequirements
         /\ LET id == Len(requirements) + 1 IN
            /\ requirements' = Append(requirements,
                   [project_id |-> p, requirement_id |-> rid, description |-> "a",
                    deleted_at |-> FALSE])
            /\ Audited(u, "create_requirement", p, "REQUIREMENT_CREATED", "requirement", id,
                       NoDetails, audit_ok)
         /\ UNCHANGED <<projects, project_access, documents, matrix_entries,
                        calls, tasks, attempts, settings, users>>

\* The project an entity-scoped request is about: the row's project, when
\* the row exists
ProjectOfRequirement(r) == IF r \in Ids(requirements) THEN requirements[r].project_id ELSE 0

ProjectOfEntry(e) ==
    IF e \in Ids(matrix_entries)
    THEN ProjectOfRequirement(matrix_entries[e].requirement_id) ELSE 0

RequirementFields == <<"requirement_id", "description">>

update_requirement(u, r, data, audit_ok) ==
    /\ CanRequest
    /\ get_current_user(u, {"engineer"})
    /\ LET p == ProjectOfRequirement(r) IN
       IF role(u) = "admin" THEN Refuse(u, "update_requirement", p, "AccessDenied")
       ELSE IF r \notin Live(requirements) THEN Refuse(u, "update_requirement", p, "NotFound")
       ELSE LET changed == Changed(requirements[r], data, RequirementFields) IN
            IF changed = <<>> THEN Refuse(u, "update_requirement", p, "OK")
            ELSE
              /\ requirements' = [requirements EXCEPT ![r] = Apply(@, data, changed)]
              /\ Audited(u, "update_requirement", p, "REQUIREMENT_UPDATED", "requirement", r,
                         Details(NULL, NULL, NULL, NULL,
                                 {changed[i] : i \in 1..Len(changed)}), audit_ok)
              /\ UNCHANGED <<projects, project_access, documents, matrix_entries,
                             calls, tasks, attempts, settings, users>>

delete_requirement(u, r, audit_ok) ==
    /\ CanRequest
    /\ get_current_user(u, {"engineer"})
    /\ LET p == ProjectOfRequirement(r) IN
       IF role(u) = "admin" THEN Refuse(u, "delete_requirement", p, "AccessDenied")
       ELSE IF r \notin Live(requirements) THEN Refuse(u, "delete_requirement", p, "NotFound")
       ELSE
         /\ requirements' = SetDeleted(requirements, r)
         /\ Audited(u, "delete_requirement", p, "REQUIREMENT_DELETED", "requirement", r,
                    NoDetails, audit_ok)
         /\ UNCHANGED <<projects, project_access, documents, matrix_entries,
                        calls, tasks, attempts, settings, users>>

-----------------------------------------------------------------------------
(* api/v1/matrix.py *)

EntryFields == <<"compliance_status", "comments">>

update_matrix_entry(u, e, data, audit_ok) ==
    /\ CanRequest
    /\ get_current_user(u, {"engineer"})
    /\ LET p == ProjectOfEntry(e) IN
       IF role(u) = "admin" THEN Refuse(u, "update_matrix_entry", p, "AccessDenied")
       ELSE IF e \notin Live(matrix_entries) THEN Refuse(u, "update_matrix_entry", p, "NotFound")
       ELSE LET changed == Changed(matrix_entries[e], data, EntryFields) IN
            IF changed = <<>> THEN Refuse(u, "update_matrix_entry", p, "OK")
            ELSE
              /\ matrix_entries' = [matrix_entries EXCEPT
                     ![e] = [Apply(@, data, changed) EXCEPT !.last_modified_by = u]]
              /\ Audited(u, "update_matrix_entry", p, "MATRIX_ENTRY_UPDATED", "matrix_entry", e,
                         Details(NULL, NULL, NULL, NULL,
                                 {changed[i] : i \in 1..Len(changed)}), audit_ok)
              /\ UNCHANGED <<projects, project_access, documents, requirements,
                             calls, tasks, attempts, settings, users>>

review_matrix_entry(u, e, review_status, reviewer_comments, audit_ok) ==
    /\ CanRequest
    /\ get_current_user(u, {"engineer"})
    /\ LET p == ProjectOfEntry(e) IN
       IF role(u) = "admin" THEN Refuse(u, "review_matrix_entry", p, "AccessDenied")
       ELSE IF e \notin Live(matrix_entries) THEN Refuse(u, "review_matrix_entry", p, "NotFound")
       ELSE
         /\ matrix_entries' = [matrix_entries EXCEPT
                ![e].review_status = review_status,
                ![e].reviewer_comments = reviewer_comments,
                ![e].approved_by = IF review_status = "approved" THEN u ELSE @,
                ![e].last_modified_by = u]
         /\ Audited(u, "review_matrix_entry", p, "MATRIX_ENTRY_REVIEWED", "matrix_entry", e,
                    Details(NULL, "review_status", matrix_entries[e].review_status,
                            review_status, {}), audit_ok)
         /\ UNCHANGED <<projects, project_access, documents, requirements,
                        calls, tasks, attempts, settings, users>>

-----------------------------------------------------------------------------
(* services/ai_service.py *)

\* The compliance_status values the provider's answers carry in this model;
\* "Requires Clarification" is also what its own fallback records carry
AIOutputs == {"Compliant", "Requires Clarification"}

\* generate_matrix_entry: _generate_matrix_with_gemini raises ValueError
\* before its try block when no Gemini key is configured; every other
\* failure is turned into a record by the provider's own except clause
generate_matrix_entry_raises ==
    settings.MATRIX_GENERATION_PROVIDER = "gemini" /\ ~settings.GEMINI_API_KEY

-----------------------------------------------------------------------------
(* api/v1/projects.py: analyze_document *)

RECURSIVE Ascending(_)
\* The requirement rows of the request, in id order
Ascending(S) ==
    IF S = {} THEN <<>>
    ELSE LET m == CHOOSE x \in S : \A y \in S : x <= y IN <<m>> \o Ascending(S \ {m})

NonDeleted(r, d) ==
    {e \in Live(matrix_entries) :
        matrix_entries[e].requirement_id = r /\ matrix_entries[e].document_id = d}

no_unique_index(r, d) == FALSE

\* The storage-layer uniqueness constraint on (requirement, document,
\* not deleted): the INSERT of a second non-deleted row for the pair fails
matrix_entry_unique_violation(r, d) == NonDeleted(r, d) # {}

is_extracted_unchecked(d) == TRUE

\* `document.extraction_status != "completed" or not document.extracted_json`
\* is the refusal: the document must be completed and hold a payload
is_extracted(d) ==
    documents[d].extraction_status = "completed" /\ documents[d].extracted_json

IdleCall ==
    [pc |-> "idle", user |-> NULL, project_id |-> 0, document_id |-> 0,
     force_regenerate |-> FALSE, requirement_ids |-> {}, queue |-> <<>>,
     existing_entry |-> 0, matrix_data |-> NULL, created_entries |-> <<>>,
     deleted_entries |-> {}, inactive |-> FALSE, response |-> NULL,
     \* MatrixGenerator calls: the batch size, the documents whose payloads
     \* were combined, and the result of each requirement so far
     batch_size |-> 0, documents |-> {}, results |-> <<>>,
     \* user administration: the user addressed, its row as the session
     \* holds it, and the columns the request has assigned
     target |-> NULL, user_row |-> NULL, dirty |-> {},
     \* history: the calls finished when this one began, the entries its
     \* checks found under force_regenerate, whether an audit write failed
     after |-> {}, found |-> {}, audit_failed |-> FALSE]

Finished == {c \in DOMAIN calls : calls[c].pc = "done"}

\* `continue`: on to the next requirement, or to the final commit
Continue(call) ==
    [call EXCEPT !.queue = Tail(@), !.existing_entry = 0, !.matrix_data = NULL,
                 !.pc = IF Len(call.queue) > 1 THEN "check" ELSE "commit"]

analyze_begin(c, u, p, d, rids, force) ==
    /\ CanRequest
    /\ calls[c].pc = "idle"
    /\ get_current_user(u, {"engineer"})
    /\ LET access == verify_project_write_access(u, p) IN
       IF access # "Allowed" THEN Refuse(u, "analyze_document", p, access)
       ELSE IF ~(d \in Live(documents) /\ documents[d].project_id = p)
       THEN Refuse(u, "analyze_document", p, "NotFound")
       ELSE IF ~is_extracted(d)
       THEN Refuse(u, "analyze_document", p, "BadRequest")
       ELSE IF ~(\A r \in rids : r \in Live(requirements) /\ requirements[r].project_id = p)
       THEN Refuse(u, "analyze_document", p, "BadRequest")
       ELSE
         /\ calls' = [calls EXCEPT ![c] =
                [IdleCall EXCEPT !.pc = "check", !.user = u, !.project_id = p,
                                 !.document_id = d, !.force_regenerate = force,
                                 !.requirement_ids = rids, !.queue = Ascending(rids),
                                 !.after = Finished]]
         /\ UNCHANGED <<db, tasks, last, committed, acked, attempts, settings, users>>

\* The select of the existing entry and the branch on it
analyze_check(c) ==
    /\ calls[c].pc = "check"
    /\ LET call == calls[c]
           found == NonDeleted(Head(call.queue), call.document_id)
       IN calls' = [calls EXCEPT ![c] =
            \* PendingRollbackError, or MultipleResultsFound: caught, continue
            IF call.inactive \/ Cardinality(found) > 1 THEN Continue(call)
            ELSE IF found = {} THEN [call EXCEPT !.pc = "generate"]
            ELSE IF call.force_regenerate
            THEN [call EXCEPT !.pc = "soft_delete", !.found = @ \cup found,
                              !.existing_entry = CHOOSE e \in found : TRUE]
            ELSE Continue(call)]
    /\ UNCHANGED <<db, tasks, last, committed, acked, attempts, settings, users>>

\* existing_entry.deleted_at = func.now(); flush; log_audit_event commits both
analyze_soft_delete(c, audit_ok) ==
    /\ calls[c].pc = "soft_delete"
    /\ LET call == calls[c]
           e == call.existing_entry
       IN IF audit_ok
          THEN /\ matrix_entries' = SetDeleted(matrix_entries, e)
               /\ audit_logs' = log_audit_event(audit_logs, call.user, "MATRIX_ENTRY_DELETED",
                                    "matrix_entry", e,
                                    Details("force_regenerate", NULL, NULL, NULL, {}))
               /\ committed' = committed \cup {Mutation("MATRIX_ENTRY_DELETED", "matrix_entry", e)}
               /\ calls' = [calls EXCEPT ![c] =
                      [call EXCEPT !.pc = "generate",
                                   !.deleted_entries = @ \cup {e}]]
          \* the commit raises and rolls the flushed UPDATE back: caught, continue
          ELSE /\ calls' = [calls EXCEPT ![c] = [Continue(call) EXCEPT !.audit_failed = TRUE]]
               /\ UNCHANGED <<matrix_entries, audit_logs, committed>>
    /\ UNCHANGED <<projects, project_access, documents, requirements,
                   tasks, last, acked, attempts, settings, users>>

\* await ai_service.generate_matrix_entry(...)
analyze_generate(c, output) ==
    /\ calls[c].pc = "generate"
    /\ calls' = [calls EXCEPT ![c] =
          IF generate_matrix_entry_raises THEN Continue(@)
          ELSE [@ EXCEPT !.pc = "insert", !.matrix_data = output]]
    /\ UNCHANGED <<db, tasks, last, committed, acked, attempts, settings, users>>

\* db.add(matrix_entry); flush; refresh; log_audit_event commits both
analyze_insert(c, audit_ok) ==
    /\ calls[c].pc = "insert"
    /\ LET call == calls[c]
           r == Head(call.queue)
           id == Len(matrix_entries) + 1
       IN IF matrix_entry_unique_violation(r, call.document_id)
          \* IntegrityError in flush: caught, the session stays inactive
          THEN /\ calls' = [calls EXCEPT ![c] = [Continue(call) EXCEPT !.inactive = TRUE]]
               /\ UNCHANGED <<matrix_entries, audit_logs, committed>>
          ELSE IF audit_ok
          THEN /\ matrix_entries' = Append(matrix_entries,
                      EntryRow(r, call.document_id, call.user, call.matrix_data))
               /\ audit_logs' = log_audit_event(audit_logs, call.user, "MATRIX_ENTRY_GENERATED",
                                    "matrix_entry", id, NoDetails)
               /\ committed' = committed \cup {Mutation("MATRIX_ENTRY_GENERATED", "matrix_entry", id)}
               /\ calls' = [calls EXCEPT ![c] =
                      [Continue(call) EXCEPT !.created_entries = Append(call.created_entries, id)]]
          \* the commit raises and rolls the flushed INSERT back; the row object
          \* stays in created_entries
          ELSE /\ calls' = [calls EXCEPT ![c] =
                      [Continue(call) EXCEPT !.created_entries = Append(call.created_entries, 0),
                                             !.audit_failed = TRUE]]
               /\ UNCHANGED <<matrix_entries, audit_logs, committed>>
    /\ UNCHANGED <<projects, project_access, documents, requirements,
                   tasks, last, acked, attempts, settings, users>>

\* The final db.commit() and the response
analyze_commit(c) ==
    /\ calls[c].pc = "commit"
    /\ LET call == calls[c]
           made == {call.created_entries[i] : i \in 1..Len(call.created_entries)} \ {0}
       IN IF call.inactive
          THEN /\ calls' = [calls EXCEPT ![c] = [call EXCEPT !.pc = "done"]]
               /\ last' = Response(call.user, "analyze_document", call.project_id, "ServerError")
               /\ UNCHANGED acked
          ELSE /\ calls' = [calls EXCEPT ![c] =
                      [call EXCEPT !.pc = "done",
                           !.response =
                               [generated |-> Len(call.created_entries),
                                entries |-> made,
                                skipped |-> Cardinality(call.requirement_ids)
                                            - Len(call.created_entries)]]]
               /\ last' = Response(call.user, "analyze_document", call.project_id, "OK")
               /\ acked' = acked \cup {Entity("matrix_entry", e) : e \in made \cup call.deleted_entries}
    /\ UNCHANGED <<db, tasks, committed, attempts, settings, users>>

-----------------------------------------------------------------------------
(* Generation: concurrent analyze_document requests on one extracted document *)

\* Two request slots: two analyze_document requests can be in flight at once
Calls == {1, 2}

\* The default configuration (gemini, no key) and a working local provider
Settings ==
    {[MATRIX_GENERATION_PROVIDER |-> "gemini", GEMINI_API_KEY |-> FALSE],
     [MATRIX_GENERATION_PROVIDER |-> "ollama", GEMINI_API_KEY |-> FALSE]}

ProjectRow(owner, pw) ==
    [owner_id |-> owner, password_hash |-> pw, name |-> "a", status |-> "a",
     \* deleted_before_cutoff: deleted_at is older than the retention window
     deleted_at |-> FALSE, deleted_before_cutoff |-> FALSE]

DocumentRow(p, status, json, error) ==
    [project_id |-> p, extraction_status |-> status, extracted_json |-> json,
     extraction_error |-> error, deleted_at |-> FALSE]

RequirementRow(p, rid) ==
    [project_id |-> p, requirement_id |-> rid, description |-> "a", deleted_at |-> FALSE]

GenAudit ==
    <<create_log("eng1", "PROJECT_CREATED", "project", 1, NoDetails),
      create_log("eng1", "DOCUMENT_UPLOADED", "document", 1, NoDetails),
      create_log("eng1", "REQUIREMENT_CREATED", "requirement", 1, NoDetails),
      create_log("eng1", "REQUIREMENT_CREATED", "requirement", 2, NoDetails)>>

GenCommitted ==
    {Mutation("PROJECT_CREATED", "project", 1),
     Mutation("DOCUMENT_UPLOADED", "document", 1),
     Mutation("REQUIREMENT_CREATED", "requirement", 1),
     Mutation("REQUIREMENT_CREATED", "requirement", 2)}

GenAcked ==
    {Entity("project", 1), Entity("document", 1),
     Entity("requirement", 1), Entity("requirement", 2)}

\* The rows and audit trail left by eng1 creating a project, uploading a
\* document that was then extracted, and creating two requirements; and,
\* in half of the initial states, generating an entry for requirement 1
InitGen ==
    /\ projects = <<ProjectRow("eng1", FALSE)>>
    /\ project_access = {}
    /\ documents = <<DocumentRow(1, "completed", TRUE, FALSE)>>
    /\ requirements = <<RequirementRow(1, "a"), RequirementRow(1, "b")>>
    /\ \E generated \in BOOLEAN :
         IF generated
         THEN /\ matrix_entries = <<EntryRow(1, 1, "eng1", "Compliant")>>
              /\ audit_logs = Append(GenAudit,
                     create_log("eng1", "MATRIX_ENTRY_GENERATED", "matrix_entry", 1, NoDetails))
              /\ committed = GenCommitted \cup
                     {Mutation("MATRIX_ENTRY_GENERATED", "matrix_entry", 1)}
              /\ acked = GenAcked \cup {Entity("matrix_entry", 1)}
         ELSE /\ matrix_entries = <<>>
              /\ audit_logs = GenAudit
              /\ committed = GenCommitted
              /\ acked = GenAcked
    /\ calls = [c \in Calls |-> IdleCall]
    /\ tasks = <<[document_id |-> 1, retries |-> 0, pc |-> "done", redelivery |-> FALSE]>>
    /\ last = NoLast
    /\ attempts = <<<<"ok">>>>
    /\ users = SeededUsers
    /\ settings \in Settings

RequirementIdSets == (SUBSET (1..MaxRequirements)) \ {{}}

NextGen ==
    \/ \E c \in Calls, u \in {"admin", "eng1"}, p \in {1, 2}, d \in {1, 2},
          rids \in RequirementIdSets, force \in BOOLEAN :
            analyze_begin(c, u, p, d, rids, force)
    \/ \E c \in Calls : analyze_check(c)
    \/ \E c \in Calls, audit_ok \in BOOLEAN : analyze_soft_delete(c, audit_ok)
    \/ \E c \in Calls, output \in AIOutputs : analyze_generate(c, output)
    \/ \E c \in Calls, audit_ok \in BOOLEAN : analyze_insert(c, audit_ok)
    \/ \E c \in Calls : analyze_commit(c)

SpecGen == InitGen /\ [][NextGen]_vars

-----------------------------------------------------------------------------
(* Claims on generation *)

Pairs == Ids(requirements) \X Ids(documents)

\* C1: in every reachable state, under any interleaving of analyze_document
\* calls (forced or not), each (requirement, document) pair has at most one
\* matrix entry whose deleted_at is null.
C1_AtMostOneNonDeleted ==
    \A pair \in Pairs : Cardinality(NonDeleted(pair[1], pair[2])) <= 1

\* Two calls raced on one pair: one inserted, the other's INSERT was refused
C1_Witness ==
    \E c1, c2 \in Calls :
        /\ c1 # c2
        /\ calls[c1].created_entries # <<>>
        /\ calls[c2].inactive
        /\ c1 \notin calls[c2].after /\ c2 \notin calls[c1].after
        /\ calls[c1].requirement_ids \cap calls[c2].requirement_ids # {}

AuditRows(action, eid) ==
    {i \in 1..Len(audit_logs) :
        /\ audit_logs[i].action = action
        /\ audit_logs[i].entity_type = "matrix_entry"
        /\ audit_logs[i].entity_id = eid}

\* Call c2 began after c1 had returned, both for the single pair (r, d),
\* both without force, no audit write failed, and every entry of the pair
\* was made by one of the two
TwiceInARow(c1, c2, r) ==
    /\ c1 # c2
    /\ calls[c1].pc = "done" /\ calls[c2].pc = "done"
    /\ calls[c1].after = {} /\ calls[c2].after = {c1}
    /\ calls[c1].requirement_ids = {r} /\ calls[c2].requirement_ids = {r}
    /\ ~calls[c1].force_regenerate /\ ~calls[c2].force_regenerate
    /\ ~calls[c1].audit_failed /\ ~calls[c2].audit_failed
    /\ \A e \in Ids(matrix_entries) :
          matrix_entries[e].requirement_id = r =>
              \E i \in 1..Len(calls[c1].created_entries) : calls[c1].created_entries[i] = e

\* C4: generating twice in a row for one pair with force false creates an
\* entry on the first call; the second call creates nothing, reports the pair
\* as skipped and returns the existing entry's identity; afterwards exactly
\* one non-deleted entry exists for the pair.
C4_CreatedThenSkipped ==
    \A c1, c2 \in Calls : \A r \in Ids(requirements) :
        TwiceInARow(c1, c2, r) =>
            /\ Len(calls[c1].created_entries) = 1
            /\ ~calls[c2].inactive
            /\ calls[c2].response.generated = 0
            /\ calls[c2].response.skipped = 1
            /\ calls[c2].response.entries = NonDeleted(r, calls[c2].document_id)
            /\ Cardinality(NonDeleted(r, calls[c2].document_id)) = 1

\* C5: a forced generation for a pair that has a non-deleted entry
\* soft-deletes it, writes its MATRIX_ENTRY_DELETED row with reason
\* force_regenerate, and then creates exactly one new entry for the pair with
\* its MATRIX_ENTRY_GENERATED row written after the deletion row.
C5_ForcedRegeneration ==
    \A c \in Calls :
        (calls[c].pc = "done" /\ calls[c].force_regenerate /\ ~calls[c].audit_failed
            /\ ~calls[c].inactive) =>
            \A old \in calls[c].found :
                /\ matrix_entries[old].deleted_at
                /\ \E i \in AuditRows("MATRIX_ENTRY_DELETED", old) :
                      /\ audit_logs[i].details.reason = "force_regenerate"
                      /\ \E k \in 1..Len(calls[c].created_entries) :
                            LET new == calls[c].created_entries[k] IN
                            /\ new # 0
                            /\ matrix_entries[new].requirement_id = matrix_entries[old].requirement_id
                            /\ matrix_entries[new].document_id = matrix_entries[old].document_id
                            /\ \E j \in AuditRows("MATRIX_ENTRY_GENERATED", new) : i < j

-----------------------------------------------------------------------------
(* tasks.py: process_document_task *)

max_retries == 3

\* The broker hands a message of the queue to a second worker execution
Redeliver(t) ==
    /\ t \in DOMAIN tasks
    /\ ~tasks[t].redelivery
    /\ Cardinality({m \in DOMAIN tasks : tasks[m].redelivery}) < MaxRedeliveries
    /\ tasks' = Append(tasks, [tasks[t] EXCEPT !.pc = "queued", !.redelivery = TRUE])
    /\ UNCHANGED <<db, calls, last, committed, acked, attempts, settings, users>>

\* Up to the first db.commit(): the row is read by id and set to processing
process_document_task_begin(t) ==
    /\ t \in DOMAIN tasks
    /\ tasks[t].pc = "queued"
    /\ LET d == tasks[t].document_id IN
       IF d \notin Ids(documents)
       THEN /\ tasks' = [tasks EXCEPT ![t].pc = "done"]
            /\ UNCHANGED documents
       ELSE /\ documents' = [documents EXCEPT ![d].extraction_status = "processing"]
            /\ tasks' = [tasks EXCEPT ![t].pc = "processing"]
    /\ UNCHANGED <<projects, project_access, requirements, matrix_entries, audit_logs,
                   calls, last, committed, acked, attempts, settings, users>>

\* extract_document_specifications raises when Gemini is not configured and
\* re-raises whatever the API call raises
extract_document_specifications_raises(outcome) ==
    ~settings.GEMINI_API_KEY \/ outcome = "raise"

\* `if self.request.retries < self.max_retries`
should_retry(retries) == retries < max_retries

\* The extraction, then the commit of completed, or of failed and the retry
process_document_task_extract(t, outcome) ==
    /\ t \in DOMAIN tasks
    /\ tasks[t].pc = "processing"
    /\ LET d == tasks[t].document_id IN
       IF extract_document_specifications_raises(outcome)
       THEN /\ documents' = [documents EXCEPT ![d].extraction_status = "failed",
                                               ![d].extraction_error = TRUE]
            /\ attempts' = [attempts EXCEPT ![d] = Append(@, "raise")]
            /\ tasks' = IF should_retry(tasks[t].retries)
                        THEN [tasks EXCEPT ![t].retries = @ + 1, ![t].pc = "queued"]
                        ELSE [tasks EXCEPT ![t].pc = "done"]
       ELSE /\ documents' = [documents EXCEPT ![d].extraction_status = "completed",
                                               ![d].extracted_json = TRUE]
            /\ attempts' = [attempts EXCEPT ![d] = Append(@, "ok")]
            /\ tasks' = [tasks EXCEPT ![t].pc = "done"]
    /\ UNCHANGED <<projects, project_access, requirements, matrix_entries, audit_logs,
                   calls, last, committed, acked, settings, users>>

-----------------------------------------------------------------------------
(* Extraction: uploads and the worker executions they start *)

Outcomes == {"ok", "raise"}

ExtractSettings ==
    {[MATRIX_GENERATION_PROVIDER |-> "gemini", GEMINI_API_KEY |-> TRUE],
     [MATRIX_GENERATION_PROVIDER |-> "gemini", GEMINI_API_KEY |-> FALSE]}

\* eng1 has created one project; nothing is uploaded yet
InitExtract ==
    /\ projects = <<ProjectRow("eng1", FALSE)>>
    /\ project_access = {}
    /\ documents = <<>>
    /\ requirements = <<>>
    /\ matrix_entries = <<>>
    /\ audit_logs = <<create_log("eng1", "PROJECT_CREATED", "project", 1, NoDetails)>>
    /\ calls = [c \in Calls |-> IdleCall]
    /\ tasks = <<>>
    /\ last = NoLast
    /\ committed = {Mutation("PROJECT_CREATED", "project", 1)}
    /\ acked = {Entity("project", 1)}
    /\ attempts = <<>>
    /\ users = SeededUsers
    /\ settings \in ExtractSettings

NextExtract ==
    \/ \E valid \in BOOLEAN, audit_ok \in BOOLEAN : upload_document("eng1", 1, valid, audit_ok)
    \/ \E t \in 1..(MaxDocuments + MaxRedeliveries) : Redeliver(t)
    \/ \E t \in 1..(MaxDocuments + MaxRedeliveries) : process_document_task_begin(t)
    \/ \E t \in 1..(MaxDocuments + MaxRedeliveries), outcome \in Outcomes :
          process_document_task_extract(t, outcome)

SpecExtract == InitExtract /\ [][NextExtract]_vars

Range(seq) == {seq[i] : i \in 1..Len(seq)}

TasksOf(d) == {t \in DOMAIN tasks : tasks[t].document_id = d}

\* Every message of document d has run to its end, none was delivered twice,
\* and every attempt raised
Exhausted(d) ==
    /\ TasksOf(d) # {}
    /\ \A t \in TasksOf(d) : tasks[t].pc = "done" /\ ~tasks[t].redelivery
    /\ Range(attempts[d]) = {"raise"}

\* C9: if extraction raises on every attempt, the task is attempted exactly 3
\* times and the document is then failed with the error recorded; if it
\* raises once and then succeeds, the document is completed.
C9_ThreeAttempts ==
    \A d \in Ids(documents) :
        /\ Exhausted(d) =>
              /\ Len(attempts[d]) = 3
              /\ documents[d].extraction_status = "failed"
              /\ documents[d].extraction_error
        /\ (attempts[d] = <<"raise", "ok">> /\ \A t \in TasksOf(d) : tasks[t].pc = "done") =>
              documents[d].extraction_status = "completed"

\* C10: once a document is completed nothing changes its status or payload,
\* a second delivery of its extraction task included; a document failed after
\* its retries are exhausted never leaves failed.
C10_TerminalStatus ==
    \A d \in Ids(documents) :
        /\ "ok" \in Range(attempts[d]) =>
              /\ documents[d].extraction_status = "completed"
              /\ documents[d].extracted_json
        /\ (\E t \in TasksOf(d) : tasks[t].pc = "done" /\ tasks[t].retries = max_retries
               /\ "ok" \notin Range(attempts[d])) =>
              documents[d].extraction_status = "failed"

-----------------------------------------------------------------------------
(* Access: reads and password verification on protected and open projects *)


\* eng1 owns a password-protected project and an open one
InitAccess ==
    /\ projects = <<ProjectRow("eng1", TRUE), ProjectRow("eng1", FALSE)>>
    /\ project_access = {}
    /\ documents = <<>>
    /\ requirements = <<>>
    /\ matrix_entries = <<>>
    /\ audit_logs = <<create_log("eng1", "PROJECT_CREATED", "project", 1, NoDetails),
                      create_log("eng1", "PROJECT_CREATED", "project", 2, NoDetails)>>
    /\ calls = [c \in Calls |-> IdleCall]
    /\ tasks = <<>>
    /\ last = NoLast
    /\ committed = {Mutation("PROJECT_CREATED", "project", 1),
                    Mutation("PROJECT_CREATED", "project", 2)}
    /\ acked = {Entity("project", 1), Entity("project", 2)}
    /\ attempts = <<>>
    /\ users = SeededUsers
    /\ settings \in Settings

NextAccess ==
    \/ \E u \in Users, p \in 1..MaxProjects : get_project(u, p)
    \/ \E u \in Users, p \in 1..MaxProjects, correct \in BOOLEAN, audit_ok \in BOOLEAN :
          verify_project_password(u, p, correct, audit_ok)
    \/ \E p \in 1..MaxProjects, audit_ok \in BOOLEAN : delete_project("eng1", p, audit_ok)

SpecAccess == InitAccess /\ [][NextAccess]_vars

\* C7: for every non-deleted project a read by an administrator is allowed,
\* whoever owns the project, whether or not it has a password digest and
\* whether or not the administrator has a ProjectAccess row.
C7_AdminReadAllowed ==
    /\ \A p \in Live(projects) : verify_project_access("admin", p) = "Allowed"
    /\ (last.op = "get_project" /\ role(last.user) = "admin" /\ last.project \in Live(projects))
          => last.status = "OK"

\* The administrator has read a protected project of another owner, with no
\* ProjectAccess row
C7_Witness ==
    /\ last.op = "get_project" /\ last.user = "admin" /\ last.status = "OK"
    /\ last.project \in Live(projects)
    /\ projects[last.project].password_hash
    /\ projects[last.project].owner_id # "admin"
    /\ <<"admin", last.project>> \notin project_access

\* C8: on a password-protected project a non-administrator who is not the
\* owner gets PasswordRequired on a read while no ProjectAccess row exists
\* for them, and is allowed on every read once one successful
\* verify_project_password has created it.
C8_PasswordGate ==
    (/\ last.op = "get_project"
     /\ last.project \in Live(projects)
     /\ role(last.user) # "admin"
     /\ projects[last.project].owner_id # last.user
     /\ projects[last.project].password_hash)
        => last.status = IF <<last.user, last.project>> \in project_access
                         THEN "OK" ELSE "PasswordRequired"

-----------------------------------------------------------------------------
(* Crud: every write handler, from one project with a generated entry *)

CrudUsers == {"admin", "eng1"}

\* Update bodies: the first field alone, or both fields, set to "b"
Updates(fields) ==
    {[f \in {fields[1], fields[2]} |-> IF f \in S THEN "b" ELSE NULL] :
        S \in {{fields[1]}, {fields[1], fields[2]}}}

InitCrud ==
    /\ projects = <<ProjectRow("eng1", FALSE)>>
    /\ project_access = {}
    /\ documents = <<DocumentRow(1, "completed", TRUE, FALSE)>>
    /\ requirements = <<RequirementRow(1, "a")>>
    /\ matrix_entries = <<EntryRow(1, 1, "eng1", "Compliant")>>
    /\ audit_logs = <<create_log("eng1", "PROJECT_CREATED", "project", 1, NoDetails),
                      create_log("eng1", "DOCUMENT_UPLOADED", "document", 1, NoDetails),
                      create_log("eng1", "REQUIREMENT_CREATED", "requirement", 1, NoDetails),
                      create_log("eng1", "MATRIX_ENTRY_GENERATED", "matrix_entry", 1, NoDetails)>>
    /\ calls = [c \in Calls |-> IdleCall]
    /\ tasks = <<[document_id |-> 1, retries |-> 0, pc |-> "done", redelivery |-> FALSE]>>
    \* the analyze_document request that generated entry 1 was answered last
    /\ last = [n |-> 1, user |-> "eng1", op |-> "analyze_document", project |-> 1,
               status |-> "OK"]
    /\ committed = {Mutation("PROJECT_CREATED", "project", 1),
                    Mutation("DOCUMENT_UPLOADED", "document", 1),
                    Mutation("REQUIREMENT_CREATED", "requirement", 1),
                    Mutation("MATRIX_ENTRY_GENERATED", "matrix_entry", 1)}
    /\ acked = {Entity("project", 1), Entity("document", 1),
                Entity("requirement", 1), Entity("matrix_entry", 1)}
    /\ attempts = <<<<"ok">>>>
    /\ users = SeededUsers
    /\ settings = [MATRIX_GENERATION_PROVIDER |-> "ollama", GEMINI_API_KEY |-> FALSE]

\* Requests address the rows of the initial state; the rows a run creates
\* are created and audited but not addressed again
NextCrud ==
    \/ \E u \in CrudUsers, audit_ok \in BOOLEAN : create_project(u, FALSE, "a", audit_ok)
    \/ \E u \in CrudUsers, p \in {1}, data \in Updates(ProjectFields),
          audit_ok \in BOOLEAN : update_project(u, p, data, audit_ok)
    \/ \E u \in CrudUsers, p \in {1}, audit_ok \in BOOLEAN :
          delete_project(u, p, audit_ok)
    \/ \E u \in CrudUsers, p \in {1}, audit_ok \in BOOLEAN :
          upload_document(u, p, TRUE, audit_ok)
    \/ \E u \in CrudUsers, p \in {1}, d \in {1}, audit_ok \in BOOLEAN :
          delete_document(u, p, d, audit_ok)
    \/ \E u \in CrudUsers, p \in {1}, rid \in Texts, audit_ok \in BOOLEAN :
          create_requirement(u, p, rid, audit_ok)
    \/ \E u \in CrudUsers, r \in {1}, data \in Updates(RequirementFields),
          audit_ok \in BOOLEAN : update_requirement(u, r, data, audit_ok)
    \/ \E u \in CrudUsers, r \in {1}, audit_ok \in BOOLEAN :
          delete_requirement(u, r, audit_ok)
    \/ \E u \in CrudUsers, e \in {1}, data \in Updates(EntryFields), audit_ok \in BOOLEAN :
          update_matrix_entry(u, e, data, audit_ok)
    \/ \E u \in CrudUsers, e \in {1}, review_status \in {"reviewed", "approved"},
          audit_ok \in BOOLEAN : review_matrix_entry(u, e, review_status, "a", audit_ok)
    \/ \E u \in CrudUsers : analyze_begin(1, u, 1, 1, {1}, TRUE)
    \/ analyze_check(1)
    \/ \E audit_ok \in BOOLEAN : analyze_soft_delete(1, audit_ok)
    \/ \E output \in AIOutputs : analyze_generate(1, output)
    \/ \E audit_ok \in BOOLEAN : analyze_insert(1, audit_ok)
    \/ analyze_commit(1)

SpecCrud == InitCrud /\ [][NextCrud]_vars

AuditedEntities ==
    {Entity(audit_logs[i].entity_type, audit_logs[i].entity_id) : i \in 1..Len(audit_logs)}

\* C2: after every successfully completed mutating request the audit log
\* holds at least one row whose entity_type and entity_id identify the
\* entity the request mutated.
C2_SuccessIsAudited == acked \subseteq AuditedEntities

\* Successful requests of several kinds have been answered: an update, a
\* review and a forced regeneration
C2_Witness ==
    /\ last.status = "OK"
    /\ \E i \in 1..Len(audit_logs) : audit_logs[i].action = "MATRIX_ENTRY_REVIEWED"
    /\ \E i \in 1..Len(audit_logs) : audit_logs[i].action = "MATRIX_ENTRY_DELETED"
    /\ \E c \in Calls :
          /\ calls[c].pc = "done" /\ ~calls[c].inactive
          /\ calls[c].deleted_entries # {}
          /\ calls[c].created_entries # <<>>

AuditedMutations ==
    {Mutation(audit_logs[i].action, audit_logs[i].entity_type, audit_logs[i].entity_id) :
        i \in 1..Len(audit_logs)}

\* C3: no committed change to a Project, Document, Requirement or MatrixEntry
\* exists without its audit row: when the audit write of a request fails, the
\* request's mutation is not persisted.
C3_NoMutationWithoutAudit == committed \subseteq AuditedMutations

WriteOps ==
    {"update_project", "delete_project", "upload_document", "delete_document",
     "create_requirement", "update_requirement", "delete_requirement",
     "analyze_document", "update_matrix_entry", "review_matrix_entry"}

\* C6: every write request of an administrator on an existing non-deleted
\* project is answered AccessDenied and leaves all stored state unchanged.
C6_AdminWriteDenied ==
    [][(/\ last'.n # last.n
        /\ role(last'.user) = "admin"
        /\ last'.op \in WriteOps
        /\ last'.project \in Live(projects))
          => (last'.status = "AccessDenied" /\ db' = db /\ tasks' = tasks)]_vars

\* The administrator was refused a write on a project that exists
C6_Witness ==
    /\ last.user = "admin" /\ last.status = "AccessDenied"
    /\ last.op \in WriteOps
    /\ last.project \in Live(projects)

-----------------------------------------------------------------------------
(* services/matrix_generator.py: MatrixGenerator.generate_matrix_for_project *)

\* What generate_matrix_entry hands back: a record with the provider's
\* compliance_status and its generation_metadata (the JSON-parse fallback
\* included), or the record of the provider's own `except Exception` clause
ProviderRecords == AIOutputs \cup {"AI generation failed"}

\* generated_entry["generation_metadata"]: the key the except-clause record lacks
generation_metadata(record) == record # "AI generation failed"

\* Up to the batches: the requirement and document selects and the refusals
generate_matrix_for_project(c, p, u, batch_size) ==
    /\ calls[c].pc = "idle"
    /\ LET reqs == {r \in Live(requirements) : requirements[r].project_id = p}
           docs == {d \in Live(documents) :
                       /\ documents[d].project_id = p
                       /\ documents[d].extraction_status = "completed"}
           call == [IdleCall EXCEPT !.user = u, !.project_id = p, !.batch_size = batch_size,
                                    !.after = Finished]
       IN calls' = [calls EXCEPT ![c] =
            IF reqs = {}
            THEN [call EXCEPT !.pc = "done",
                     !.response = [success |-> FALSE,
                                   error |-> "No requirements found for project",
                                   total_requirements |-> 0,
                                   generated_count |-> 0, failed_count |-> 0]]
            ELSE IF docs = {}
            THEN [call EXCEPT !.pc = "done",
                     !.response = [success |-> FALSE,
                                   error |-> "No extracted documents found for project",
                                   total_requirements |-> 0,
                                   generated_count |-> 0, failed_count |-> 0]]
            \* _combine_document_specifications skips a document without payload
            ELSE [call EXCEPT !.pc = "single", !.queue = Ascending(reqs),
                     !.requirement_ids = reqs,
                     !.documents = {d \in docs : documents[d].extracted_json}]]
    /\ UNCHANGED <<db, tasks, last, committed, acked, attempts, settings, users>>

\* requirements[i:i + batch_size]: the positions gathered with position i
BatchOf(i, total, batch_size) ==
    {j \in 1..total : (j - 1) \div batch_size = (i - 1) \div batch_size}

\* _process_requirements_batch gathers the coroutines of a batch on the one
\* AsyncSession of the call: with more than one of them the session is used
\* concurrently
shares_session(call) ==
    LET total == Len(call.results) + Len(call.queue)
    IN Cardinality(BatchOf(Len(call.results) + 1, total, call.batch_size)) > 1

\* _generate_single_matrix_entry for the next requirement.  Every exception
\* ends in db.rollback() and a result with success False; the entry carries
\* no document_id and no audit row is written
generate_single_matrix_entry(c, record, conflict) ==
    /\ calls[c].pc = "single"
    /\ conflict => shares_session(calls[c])
    /\ LET call == calls[c]
           r == Head(call.queue)
           id == Len(matrix_entries) + 1
           existing == {e \in Live(matrix_entries) : matrix_entries[e].requirement_id = r}
           result ==
               \* the session raises under concurrent use by a sibling coroutine
               IF conflict THEN "session"
               ELSE IF Cardinality(existing) > 1 THEN "MultipleResultsFound"
               ELSE IF existing # {} THEN "exists"
               ELSE IF generate_matrix_entry_raises THEN "provider"
               ELSE IF ~generation_metadata(record) THEN "KeyError"
               ELSE "created"
       IN /\ matrix_entries' =
                IF result = "created"
                THEN Append(matrix_entries,
                        EntryRow(r, 0, call.user,
                                 IF record = "AI generation failed"
                                 THEN "Requires Clarification" ELSE record))
                ELSE matrix_entries
          /\ calls' = [calls EXCEPT ![c] =
                [call EXCEPT !.queue = Tail(@),
                             !.results = Append(@, result),
                             !.created_entries = IF result = "created" THEN Append(@, id) ELSE @,
                             !.pc = IF Len(call.queue) > 1 THEN "single" ELSE "return"]]
    /\ UNCHANGED <<projects, project_access, documents, requirements, audit_logs,
                   tasks, last, committed, acked, attempts, settings, users>>

\* The summary: results with success counted as generated, the rest as failed
generate_matrix_for_project_return(c) ==
    /\ calls[c].pc = "return"
    /\ LET call == calls[c]
           generated_count == Cardinality({i \in 1..Len(call.results) : call.results[i] = "created"})
       IN calls' = [calls EXCEPT ![c] =
            [call EXCEPT !.pc = "done",
                 !.response = [success |-> TRUE, error |-> NULL,
                               total_requirements |-> Len(call.results),
                               generated_count |-> generated_count,
                               failed_count |-> Len(call.results) - generated_count]]]
    /\ UNCHANGED <<db, tasks, last, committed, acked, attempts, settings, users>>

-----------------------------------------------------------------------------
(* Service: generation over documents in every extraction state *)

\* The states process_document_task leaves a document in: status, payload, error
DocumentStates ==
    {<<"pending", FALSE, FALSE>>, <<"failed", FALSE, TRUE>>, <<"completed", TRUE, FALSE>>}

\* Slot 1 takes an analyze_document request, slot 2 a MatrixGenerator call
ApiCall == 1
ServiceCall == 2

\* eng1 has created an open project with two documents and two requirements;
\* in some initial states requirement 1 has an entry from document 1
InitService ==
    /\ projects = <<ProjectRow("eng1", FALSE)>>
    /\ project_access = {}
    /\ \E s1, s2 \in DocumentStates :
          documents = <<DocumentRow(1, s1[1], s1[2], s1[3]), DocumentRow(1, s2[1], s2[2], s2[3])>>
    /\ requirements = <<RequirementRow(1, "a"), RequirementRow(1, "b")>>
    /\ matrix_entries \in {<<>>, <<EntryRow(1, 1, "eng1", "Compliant")>>}
    /\ matrix_entries # <<>> => documents[1].extraction_status = "completed"
    /\ audit_logs = <<>>
    /\ calls = [c \in Calls |-> IdleCall]
    /\ tasks = <<>>
    /\ last = NoLast
    /\ committed = {}
    /\ acked = {}
    /\ attempts = <<<<>>, <<>>>>
    /\ users = SeededUsers
    /\ settings \in Settings

BatchSizes == {1, 2}

NextService ==
    \/ \E d \in {1, 2}, rids \in RequirementIdSets :
          analyze_begin(ApiCall, "eng1", 1, d, rids, FALSE)
    \/ analyze_check(ApiCall)
    \/ \E record \in AIOutputs : analyze_generate(ApiCall, record)
    \/ \E audit_ok \in BOOLEAN : analyze_insert(ApiCall, audit_ok)
    \/ analyze_commit(ApiCall)
    \/ \E batch_size \in BatchSizes : generate_matrix_for_project(ServiceCall, 1, "eng1", batch_size)
    \/ \E record \in ProviderRecords, conflict \in BOOLEAN :
          generate_single_matrix_entry(ServiceCall, record, conflict)
    \/ generate_matrix_for_project_return(ServiceCall)

SpecService == InitService /\ [][NextService]_vars

\* The documents a call in flight generates from
SourcesOf(call) ==
    IF call.batch_size = 0 THEN {call.document_id} ELSE call.documents

Extracted(d) ==
    documents[d].extraction_status = "completed" /\ documents[d].extracted_json

-----------------------------------------------------------------------------
(* Claims on review *)

\* C12: once the review_status of a matrix entry is approved, no request
\* changes it to another value.
C12_ApprovedIsTerminal ==
    [][\A e \in Ids(matrix_entries) :
          matrix_entries[e].review_status = "approved" =>
              matrix_entries'[e].review_status = "approved"]_vars

-----------------------------------------------------------------------------
(* Claims on provider failures and batches *)

\* No session error, audit failure or sibling conflict disturbed the call
Undisturbed(c) ==
    /\ calls[c].pc = "done"
    /\ ~calls[c].inactive /\ ~calls[c].audit_failed
    /\ \A i \in 1..Len(calls[c].results) : calls[c].results[i] # "session"

EntriesOf(r) == {e \in Live(matrix_entries) : matrix_entries[e].requirement_id = r}

\* C13: a failing provider call (the provider not being configured
\* included) never leaves a requirement of the generation without an entry:
\* once a generation has run to its end, every requirement it covered has a
\* non-deleted entry, a Requires Clarification one where the provider failed.
C13_FailureGivesDegradedEntry ==
    \A c \in Calls :
        (Undisturbed(c) /\ calls[c].requirement_ids # {}) =>
            \A r \in calls[c].requirement_ids : EntriesOf(r) # {}

\* Call c ran alone to its end over requirements that had no entry before it
AloneFromScratch(c) ==
    /\ calls[c].pc = "done" /\ ~calls[c].inactive
    /\ calls[c].requirement_ids # {}
    /\ \A o \in Calls \ {c} : calls[o].pc = "idle"
    /\ \A e \in Ids(matrix_entries) :
          \E i \in 1..Len(calls[c].created_entries) : calls[c].created_entries[i] = e

\* The requirements of call c that were left without an entry
FailedOf(c) == {r \in calls[c].requirement_ids : EntriesOf(r) = {}}

\* C14: a generation over N requirements without entries, k of which fail,
\* covers all N and reports N - k generated and k failed (analyze_document
\* reports its count of requirements without a new entry as skipped).
C14_CountsAddUp ==
    \A c \in Calls :
        AloneFromScratch(c) =>
            LET N == Cardinality(calls[c].requirement_ids)
                k == Cardinality(FailedOf(c))
            IN IF c = ServiceCall
               THEN /\ calls[c].response.total_requirements = N
                    /\ calls[c].response.generated_count = N - k
                    /\ calls[c].response.failed_count = k
               ELSE /\ calls[c].response.generated = N - k
                    /\ calls[c].response.skipped = k

GenerationRows ==
    {i \in 1..Len(audit_logs) : audit_logs[i].action = "MATRIX_ENTRY_GENERATED"}

\* C15: on a project without password, with an extracted document and two
\* requirements without entries, one generation over both requirements
\* creates exactly two entries, both pending, writes exactly two generation
\* audit rows and reports nothing skipped.
C15_TwoEntriesTwoAuditRows ==
    \A c \in Calls :
        (/\ AloneFromScratch(c) /\ Undisturbed(c)
         /\ calls[c].requirement_ids = {1, 2}
         /\ ~projects[calls[c].project_id].password_hash) =>
            /\ Len(matrix_entries) = 2
            /\ \A e \in Ids(matrix_entries) :
                  /\ ~matrix_entries[e].deleted_at
                  /\ matrix_entries[e].review_status = "pending"
            /\ Cardinality(GenerationRows) = 2
            /\ IF c = ServiceCall
               THEN calls[c].response.failed_count = 0
               ELSE calls[c].response.skipped = 0

-----------------------------------------------------------------------------
(* tasks.py: purge_old_deleted_projects_task *)

MaxPurges == 2

\* AuditLog.user_id is declared nullable=False
audit_user_id_nullable == FALSE

\* db.delete(project) committed: the row and, by cascade, its dependents are
\* gone; the table keeps the position so that ids stay indices
Purged(p) == Mutation("PROJECT_PURGED", "project", p) \in committed

\* Time passes: the soft delete of project p is now older than
\* DATA_RETENTION_DAYS
RetentionElapses(p) ==
    /\ p \in Ids(projects)
    /\ projects[p].deleted_at /\ ~projects[p].deleted_before_cutoff
    /\ projects' = [projects EXCEPT ![p].deleted_before_cutoff = TRUE]
    /\ UNCHANGED <<project_access, documents, requirements, matrix_entries, audit_logs,
                   calls, tasks, last, committed, acked, attempts, settings, users>>

\* A select that leaves out the cutoff comparison
projects_to_purge_all_deleted ==
    {p \in Ids(projects) : projects[p].deleted_at /\ ~Purged(p)}

\* The projects the task's select returns
projects_to_purge ==
    {p \in Ids(projects) :
        projects[p].deleted_at /\ projects[p].deleted_before_cutoff /\ ~Purged(p)}

\* One run of the task.  For each project: AuditLog(user_id=None, ...) is
\* added and flushed, then the project is deleted and both are committed;
\* an exception rolls the project's transaction back and the loop goes on
purge_old_deleted_projects_task ==
    /\ Cardinality({t \in DOMAIN tasks : tasks[t].pc = "purged"}) < MaxPurges
    /\ LET \* the flush of a row with user_id NULL raises IntegrityError
           purged == IF audit_user_id_nullable THEN projects_to_purge ELSE {}
           order == Ascending(purged)
       IN /\ audit_logs' = audit_logs \o
                 [i \in 1..Len(order) |->
                     create_log(NULL, "PROJECT_PURGED", "project", order[i], NoDetails)]
          /\ committed' = committed \cup
                 {Mutation("PROJECT_PURGED", "project", q) : q \in purged}
          \* the return value: status completed and purged_count
          /\ tasks' = Append(tasks, [pc |-> "purged", status |-> "completed",
                                     purged_count |-> Cardinality(purged)])
    /\ UNCHANGED <<projects, project_access, documents, requirements, matrix_entries,
                   calls, last, acked, attempts, settings, users>>

-----------------------------------------------------------------------------
(* Purge: soft deletes, the passing of the retention window, purge runs *)

NextPurge ==
    \/ \E q \in 1..MaxProjects, audit_ok \in BOOLEAN : delete_project("eng1", q, audit_ok)
    \/ \E u \in Users, q \in 1..MaxProjects : get_project(u, q)
    \/ \E q \in 1..MaxProjects : RetentionElapses(q)
    \/ purge_old_deleted_projects_task

SpecPurge == InitAccess /\ [][NextPurge]_vars

PurgeRows(q) ==
    {i \in 1..Len(audit_logs) :
        /\ audit_logs[i].action = "PROJECT_PURGED"
        /\ audit_logs[i].entity_id = q}

\* C16: every project a purge run hard-deletes gets, in the step that
\* deletes it, exactly one PROJECT_PURGED audit row with a null actor; and a
\* purge run hard-deletes every project whose soft delete is older than the
\* retention window.
C16_PurgeAuditedAndComplete ==
    [][Len(tasks') > Len(tasks) =>
          /\ \A q \in Ids(projects) :
                (Purged(q)' /\ ~Purged(q)) =>
                    /\ Cardinality(PurgeRows(q)') = 1
                    /\ \A i \in PurgeRows(q)' : audit_logs'[i].user_id = NULL
          /\ \A q \in projects_to_purge : Purged(q)']_vars

-----------------------------------------------------------------------------
(* Claims on requirements, the audit trail and access *)

\* C17: after any sequence of create_requirement and update_requirement
\* requests no two non-deleted requirements of one project share a
\* requirement_id.
C17_UniqueRequirementId ==
    \A r1, r2 \in Live(requirements) :
        (r1 # r2 /\ requirements[r1].project_id = requirements[r2].project_id) =>
            requirements[r1].requirement_id # requirements[r2].requirement_id

\* Every request handler together with the extraction task
NextAudit ==
    \/ NextCrud
    \/ \E t \in 1..MaxDocuments : process_document_task_begin(t)
    \/ \E t \in 1..MaxDocuments, outcome \in Outcomes :
          process_document_task_extract(t, outcome)

SpecAudit == InitCrud /\ [][NextAudit]_vars

\* C18: the audit log is append-only under every request handler and under
\* the extraction task: every step keeps every existing row, unchanged and
\* in place, so the log only grows.
C18_AppendOnly ==
    [][/\ Len(audit_logs') >= Len(audit_logs)
       /\ SubSeq(audit_logs', 1, Len(audit_logs)) = audit_logs]_vars

\* Handlers have added rows to the log of the initial state and the
\* extraction task of an uploaded document has run to its end
C18_Witness ==
    /\ Len(audit_logs) > 5
    /\ \E i \in 1..Len(audit_logs) : audit_logs[i].action = "DOCUMENT_UPLOADED"
                                     /\ audit_logs[i].entity_id = 2
    /\ \E t \in TasksOf(2) : tasks[t].pc = "done"
    /\ attempts[2] # <<>>

\* Reads, password verification and writes on a protected and an open
\* project of eng1, by every user
NextProtected ==
    \/ \E u \in Users, q \in 1..MaxProjects : get_project(u, q)
    \/ \E u \in Users, q \in 1..MaxProjects, correct \in BOOLEAN, audit_ok \in BOOLEAN :
          verify_project_password(u, q, correct, audit_ok)
    \/ \E u \in Users, q \in 1..MaxProjects, audit_ok \in BOOLEAN :
          upload_document(u, q, TRUE, audit_ok)
    \/ \E u \in Users, q \in 1..MaxProjects, rid \in Texts, audit_ok \in BOOLEAN :
          create_requirement(u, q, rid, audit_ok)
    \/ \E u \in Users, r \in 1..MaxRequirements, audit_ok \in BOOLEAN :
          delete_requirement(u, r, audit_ok)

SpecProtected == InitAccess /\ [][NextProtected]_vars

\* C19: a principal whose read of a password-protected project is not
\* allowed cannot mutate the project's data: each of their write requests on
\* it is refused and changes nothing.
C19_NoWriteWithoutReadAccess ==
    [][(/\ last'.n # last.n
        /\ last'.op \in WriteOps
        /\ last'.project \in Live(projects)
        /\ projects[last'.project].password_hash
        /\ verify_project_access(last'.user, last'.project) # "Allowed")
          => (last'.status \notin {"OK", "ServerError"} /\ db' = db /\ tasks' = tasks)]_vars

\* C20: no request of an administrator creates or changes a Project,
\* Document, Requirement, MatrixEntry or ProjectAccess row, project creation
\* and password verification included.
C20_AdminChangesNothing ==
    [][(last'.n # last.n /\ role(last'.user) = "admin") =>
          /\ projects' = projects
          /\ project_access' = project_access
          /\ documents' = documents
          /\ requirements' = requirements
          /\ matrix_entries' = matrix_entries]_vars

-----------------------------------------------------------------------------
(* Claims on the read decision and on ProjectAccess rows *)

\* The read decision as a function of (project exists and is not deleted,
\* role, is owner, has password digest, ProjectAccess row exists)
ReadDecision(u, q) ==
    IF q \notin Live(projects) THEN "NotFound"
    ELSE IF role(u) = "admin" THEN "Allowed"
    ELSE IF projects[q].owner_id = u THEN "Allowed"
    ELSE IF ~projects[q].password_hash THEN "Allowed"
    ELSE IF <<u, q>> \in project_access THEN "Allowed"
    ELSE "PasswordRequired"

\* C21: the decision of verify_project_access is exactly ReadDecision, for
\* every principal and project, and every read is answered by it;
\* PasswordRequired is not the AccessDenied of a denied write.
C21_ReadDecisionTable ==
    /\ \A u \in Users, q \in 1..MaxProjects :
          verify_project_access(u, q) = ReadDecision(u, q)
    /\ last.op = "get_project" =>
          last.status = IF ReadDecision(last.user, last.project) = "Allowed"
                        THEN "OK" ELSE ReadDecision(last.user, last.project)
    /\ "PasswordRequired" # "AccessDenied"

\* C22: a ProjectAccess row appears only in a verify_project_password
\* request of its user on its project, live and password-protected, that
\* got past the password check; a verification answered Unauthorized,
\* BadRequest or NotFound leaves the rows unchanged; no request removes one.
C22_AccessOnlyByVerification ==
    [][/\ project_access \subseteq project_access'
       /\ \A pair \in project_access' \ project_access :
             /\ last'.n # last.n
             /\ last'.op = "verify_project_password"
             /\ pair = <<last'.user, last'.project>>
             /\ last'.status \in {"OK", "ServerError"}
             /\ last'.project \in Live(projects)
             /\ projects[last'.project].password_hash
       /\ (/\ last'.n # last.n
           /\ last'.op = "verify_project_password"
           /\ last'.status \in {"Unauthorized", "BadRequest", "NotFound"})
             => project_access' = project_access]_vars

\* A wrong password was refused while a row of an earlier verification exists
C22_Witness ==
    /\ project_access # {}
    /\ last.op = "verify_project_password"
    /\ last.status = "Unauthorized"

-----------------------------------------------------------------------------
(* api/v1/projects.py: verify_project_password, split at its awaits *)

\* UniqueConstraint('user_id', 'project_id'): a second row for the pair is
\* refused at commit
unique_user_project_access(u, q) == <<u, q>> \in project_access

\* Up to the select of the existing ProjectAccess row.  The exits before it
\* (404, 400, 401 with its audit row) are those of the whole handler
verify_project_password_select(c, u, q, correct, audit_ok) ==
    /\ calls[c].pc = "idle"
    /\ IF q \in Live(projects) /\ projects[q].password_hash /\ correct
       THEN /\ CanRequest
            /\ get_current_user(u, {"engineer"})
            /\ calls' = [calls EXCEPT ![c] =
                   [IdleCall EXCEPT !.pc = "verify_insert", !.user = u, !.project_id = q,
                                    !.after = Finished,
                                    !.found = IF <<u, q>> \in project_access
                                              THEN {<<u, q>>} ELSE {}]]
            /\ UNCHANGED <<db, tasks, last, committed, acked, attempts, settings, users>>
       ELSE verify_project_password(u, q, correct, audit_ok)

\* `if not existing_access: db.add(project_access); await db.commit()`,
\* then log_audit_event and the response
verify_project_password_insert(c, audit_ok) ==
    /\ calls[c].pc = "verify_insert"
    /\ LET call == calls[c]
           u == call.user
           q == call.project_id
       IN IF call.found = {} /\ unique_user_project_access(u, q)
          \* IntegrityError from the commit: the request answers 500
          THEN /\ calls' = [calls EXCEPT ![c] = [call EXCEPT !.pc = "done", !.inactive = TRUE]]
               /\ last' = Response(u, "verify_project_password", q, "ServerError")
               /\ UNCHANGED <<project_access, audit_logs>>
          ELSE /\ project_access' = IF call.found = {}
                                    THEN access_records(project_access, u, q, TRUE)
                                    ELSE project_access
               /\ IF audit_ok
                  THEN /\ audit_logs' = log_audit_event(audit_logs, u,
                                            "PROJECT_PASSWORD_VERIFIED", "project", q, NoDetails)
                       /\ last' = Response(u, "verify_project_password", q, "OK")
                       /\ calls' = [calls EXCEPT ![c] = [call EXCEPT !.pc = "done"]]
                  ELSE /\ UNCHANGED audit_logs
                       /\ last' = Response(u, "verify_project_password", q, "ServerError")
                       /\ calls' = [calls EXCEPT ![c] =
                              [call EXCEPT !.pc = "done", !.audit_failed = TRUE]]
    /\ UNCHANGED <<projects, documents, requirements, matrix_entries,
                   tasks, committed, acked, attempts, settings, users>>

\* Verifications in two request slots, and reads
NextVerify ==
    \/ \E c \in Calls, u \in Users, q \in 1..MaxProjects, correct \in BOOLEAN,
          audit_ok \in BOOLEAN : verify_project_password_select(c, u, q, correct, audit_ok)
    \/ \E c \in Calls, audit_ok \in BOOLEAN : verify_project_password_insert(c, audit_ok)
    \/ \E u \in Users, q \in 1..MaxProjects : get_project(u, q)

SpecVerify == InitAccess /\ [][NextVerify]_vars

\* C23: when one user runs two verifications with the right password for
\* one project concurrently, both requests report success (and the pair has
\* one ProjectAccess row): neither fails because the other inserted first.
C23_BothVerificationsSucceed ==
    \A c1, c2 \in Calls :
        (/\ c1 # c2
         /\ calls[c1].pc = "done" /\ calls[c2].pc = "done"
         /\ calls[c1].user = calls[c2].user
         /\ calls[c1].project_id = calls[c2].project_id
         /\ ~calls[c1].audit_failed /\ ~calls[c2].audit_failed) =>
            /\ ~calls[c1].inactive /\ ~calls[c2].inactive
            /\ <<calls[c1].user, calls[c1].project_id>> \in project_access

\* C24: every verify_project_password request on a password-protected
\* project writes exactly one audit row for the project:
\* PROJECT_PASSWORD_VERIFY_FAILED when it is answered Unauthorized,
\* PROJECT_PASSWORD_VERIFIED otherwise.
C24_VerificationAudited ==
    [][(/\ last'.n # last.n
        /\ last'.op = "verify_project_password"
        /\ last'.project \in Live(projects)
        /\ projects[last'.project].password_hash) =>
          audit_logs' = Append(audit_logs,
              create_log(last'.user,
                         IF last'.status = "Unauthorized"
                         THEN "PROJECT_PASSWORD_VERIFY_FAILED"
                         ELSE "PROJECT_PASSWORD_VERIFIED",
                         "project", last'.project, NoDetails))]_vars

-----------------------------------------------------------------------------
(* Claims on the extraction status *)

\* A retry of document d is being started by this step: a message of d that
\* has been retried at most max_retries times goes from queued to processing
RetryStarts(d) ==
    \E t \in TasksOf(d) :
        /\ tasks[t].retries \in 1..max_retries
        /\ tasks[t].pc = "queued"
        /\ tasks'[t].pc = "processing"

\* C25: every change of a document's extraction_status is pending to
\* processing, processing to completed, processing to failed, or failed to
\* processing as a retry within the retry bound; a document is created pending.
C25_StatusTransitions ==
    [][/\ \A d \in Ids(documents) :
            LET old == documents[d].extraction_status
                new == documents'[d].extraction_status
            IN \/ old = new
               \/ <<old, new>> \in {<<"pending", "processing">>,
                                    <<"processing", "completed">>,
                                    <<"processing", "failed">>}
               \/ old = "failed" /\ new = "processing" /\ RetryStarts(d)
       /\ \A d \in Ids(documents') \ Ids(documents) :
            documents'[d].extraction_status = "pending"]_vars

\* The worker keeps taking the messages of the queue: a message that is
\* queued is eventually begun, one that is processing eventually ends
WorkerRuns ==
    /\ WF_vars(\E t \in 1..(MaxDocuments + MaxRedeliveries) : process_document_task_begin(t))
    /\ WF_vars(\E t \in 1..(MaxDocuments + MaxRedeliveries), outcome \in Outcomes :
                  process_document_task_extract(t, outcome))

SpecExtractLive == SpecExtract /\ WorkerRuns

\* Document d is completed or failed and no message of it is left to run
Settled(d) ==
    /\ documents[d].extraction_status \in {"completed", "failed"}
    /\ \A t \in TasksOf(d) : tasks[t].pc = "done"

\* C26: with the worker running, every uploaded document eventually is
\* completed or failed for good, with no message of it left to run; and the
\* number of extraction attempts of a document is bounded.
C26_EveryDocumentSettles ==
    /\ [](\A d \in Ids(documents) :
            Len(attempts[d]) <= (max_retries + 1) * (1 + MaxRedeliveries))
    /\ <>[](\A d \in Ids(documents) : Settled(d))

\* The audit rows a step adds
NewAuditRows == {audit_logs'[i] : i \in (Len(audit_logs) + 1)..Len(audit_logs')}

\* C27: every step that changes a document's extraction_status (to
\* processing, completed or failed) adds an audit row for that document.
C27_StatusChangeAudited ==
    [][\A d \in Ids(documents) :
          documents'[d].extraction_status # documents[d].extraction_status =>
              \E row \in NewAuditRows :
                  row.entity_type = "document" /\ row.entity_id = d]_vars

-----------------------------------------------------------------------------
(* Claims on the review workflow *)

\* C28: every change of a matrix entry's review_status is pending to
\* reviewed or reviewed to approved, and review_status is always one of
\* pending, reviewed, approved.
C28_ReviewTransitions ==
    [][\A e \in Ids(matrix_entries) :
          LET old == matrix_entries[e].review_status
              new == matrix_entries'[e].review_status
          IN /\ new \in ReviewValues
             /\ old # new =>
                   <<old, new>> \in {<<"pending", "reviewed">>, <<"reviewed", "approved">>}]_vars

\* C29: a matrix entry has approved_by set exactly when its review_status
\* is approved, and the review request that sets approved stamps its own
\* principal.
C29_ApproverIffApproved ==
    [][\A e \in Ids(matrix_entries') :
          /\ (matrix_entries'[e].approved_by # NULL) <=>
                (matrix_entries'[e].review_status = "approved")
          /\ (/\ e \in Ids(matrix_entries)
              /\ matrix_entries[e].review_status # "approved"
              /\ matrix_entries'[e].review_status = "approved") =>
                matrix_entries'[e].approved_by = last'.user]_vars

-----------------------------------------------------------------------------
(* Claims on the retention purge *)

\* Soft-deleted for longer than the retention window
PastRetention(q) == projects[q].deleted_at /\ projects[q].deleted_before_cutoff

\* C30: a purge run selects and hard-deletes only projects that are
\* soft-deleted for longer than the retention window at the time of the run;
\* a project that is not deleted, or was soft-deleted within the window,
\* survives the run with its documents, requirements and matrix entries.
C30_PurgeOnlyPastRetention ==
    [][Len(tasks') > Len(tasks) =>
          /\ \A q \in projects_to_purge : PastRetention(q)
          /\ \A q \in Ids(projects) :
                /\ (Purged(q)' /\ ~Purged(q)) => PastRetention(q)
                /\ ~PastRetention(q) =>
                      /\ ~Purged(q)'
                      /\ projects'[q] = projects[q]
          /\ UNCHANGED <<documents, requirements, matrix_entries>>]_vars

\* A purge run has taken place while one project was not deleted and the
\* other was soft-deleted within the window; neither is purged
C30_Witness ==
    /\ \E t \in DOMAIN tasks : tasks[t].pc = "purged"
    /\ \E q \in Ids(projects) : ~projects[q].deleted_at /\ ~Purged(q)
    /\ \E q \in Ids(projects) :
          projects[q].deleted_at /\ ~projects[q].deleted_before_cutoff /\ ~Purged(q)

-----------------------------------------------------------------------------
(* Claims on deletion *)

\* C31: no request step removes a row of projects, documents, requirements
\* or matrix_entries: every table keeps all its rows with their identity,
\* a row once soft-deleted stays stored, and no hard delete is committed;
\* a delete request only sets deleted_at.
C31_NoPhysicalRemoval ==
    [][/\ \A table \in {<<projects, projects'>>, <<documents, documents'>>,
                        <<requirements, requirements'>>,
                        <<matrix_entries, matrix_entries'>>} :
             /\ Len(table[2]) >= Len(table[1])
             /\ \A i \in Ids(table[1]) :
                   \/ table[2][i] = table[1][i]
                   \/ ~table[2][i].deleted_at /\ ~table[1][i].deleted_at
                   \/ table[2][i] = [table[1][i] EXCEPT !.deleted_at = TRUE]
       /\ \A q \in Ids(projects') : ~Purged(q)']_vars

\* Two delete requests were answered and both rows are still stored
C31_Witness ==
    /\ last.op = "delete_requirement" /\ last.status = "OK"
    /\ requirements[1].deleted_at
    /\ documents[1].deleted_at
    /\ Len(requirements) >= 1 /\ Len(documents) >= 1

-----------------------------------------------------------------------------
(* Claims on batches of MatrixGenerator *)

\* The results after which _generate_single_matrix_entry calls db.rollback()
\* for a failure of the requirement's own generation
OwnFailures == {"provider", "KeyError", "MultipleResultsFound"}

\* C32: in a batch gathered on the shared session, the failure of one
\* requirement's generation (and its rollback) never makes a sibling of the
\* same batch fail on the session, and the entries the siblings created stay
\* stored and non-deleted.
C32_SiblingFailureIsolated ==
    LET call == calls[ServiceCall] IN
    (call.pc = "done" /\ call.batch_size > 1) =>
        /\ \A i, j \in 1..Len(call.results) :
              (/\ i # j
               /\ j \in BatchOf(i, Len(call.results), call.batch_size)
               /\ call.results[i] \in OwnFailures) =>
                  call.results[j] # "session"
        /\ \A k \in 1..Len(call.created_entries) :
              call.created_entries[k] \in Live(matrix_entries)

\* The number of requirements of a finished MatrixGenerator call with result
\* in S
CountOf(call, S) == Cardinality({i \in 1..Len(call.results) : call.results[i] \in S})

\* C33: the result of a generation partitions its requirements into
\* generated, skipped (an entry already existed) and failed: a requirement
\* skipped for its existing entry is not counted as failed, and a requirement
\* whose generation failed is not counted as skipped.
C33_OutcomesPartition ==
    /\ LET call == calls[ServiceCall] IN
       (call.pc = "done" /\ call.results # <<>>) =>
           /\ call.response.total_requirements = Len(call.results)
           /\ call.response.generated_count = CountOf(call, {"created"})
           /\ call.response.failed_count =
                  Len(call.results) - CountOf(call, {"created", "exists"})
    /\ AloneFromScratch(ApiCall) => calls[ApiCall].response.skipped = 0

-----------------------------------------------------------------------------
(* Claims on updates *)

\* The fields of the rows of a table that a step changes
FieldChanges(etype, old, new, fields) ==
    {x \in {etype} \X Ids(old) \X Range(fields) : new[x[2]][x[3]] # old[x[2]][x[3]]}

\* C34: an answered update that changes k fields of a project, requirement
\* or matrix entry adds exactly k audit rows, one for each changed field; an
\* update that changes no field adds no audit row and changes no row.
C34_OneRowPerChangedField ==
    [][(/\ last'.n # last.n
        /\ last'.op \in {"update_project", "update_requirement", "update_matrix_entry"}
        /\ last'.status = "OK") =>
          LET changes == FieldChanges("project", projects, projects', ProjectFields)
                         \cup FieldChanges("requirement", requirements, requirements',
                                           RequirementFields)
                         \cup FieldChanges("matrix_entry", matrix_entries, matrix_entries',
                                           EntryFields)
          IN /\ Len(audit_logs') = Len(audit_logs) + Cardinality(changes)
             /\ \A x \in changes :
                   \E row \in NewAuditRows :
                       /\ row.entity_type = x[1] /\ row.entity_id = x[2]
                       /\ row.details.field = x[3] \/ x[3] \in row.details.changes
             /\ changes = {} => db' = db]_vars

-----------------------------------------------------------------------------
(* Claims on soft-deleted entities *)

Engineers == {u \in Users : role(u) = "engineer"}

\* A step that answers with NotFound and changes no row
AnsweredNotFound == last'.status = "NotFound" /\ db' = db

\* C35: a request of an engineer that addresses a soft-deleted project,
\* document, requirement or matrix entry is answered NotFound, as for an
\* entity that never existed, and changes no row; so a second delete of an
\* entity writes no second deletion audit row.
C35_SoftDeletedIsNotFound ==
    [][\A u \in Engineers, audit_ok \in BOOLEAN :
          /\ \A p \in Ids(projects) :
                projects[p].deleted_at =>
                    /\ \A data \in Updates(ProjectFields) :
                          update_project(u, p, data, audit_ok) => AnsweredNotFound
                    /\ delete_project(u, p, audit_ok) => AnsweredNotFound
                    /\ upload_document(u, p, TRUE, audit_ok) => AnsweredNotFound
                    /\ \A rid \in Texts :
                          create_requirement(u, p, rid, audit_ok) => AnsweredNotFound
          /\ \A d \in Ids(documents) :
                documents[d].deleted_at =>
                    /\ delete_document(u, documents[d].project_id, d, audit_ok)
                          => AnsweredNotFound
                    /\ \A c \in Calls, rids \in SUBSET Ids(requirements), force \in BOOLEAN :
                          analyze_begin(c, u, documents[d].project_id, d, rids, force)
                              => AnsweredNotFound
          /\ \A r \in Ids(requirements) :
                requirements[r].deleted_at =>
                    /\ \A data \in Updates(RequirementFields) :
                          update_requirement(u, r, data, audit_ok) => AnsweredNotFound
                    /\ delete_requirement(u, r, audit_ok) => AnsweredNotFound
                    /\ \A c \in Calls, d \in Ids(documents), force \in BOOLEAN,
                          rids \in SUBSET Ids(requirements) :
                          (r \in rids /\ analyze_begin(c, u, requirements[r].project_id,
                                                       d, rids, force))
                              => AnsweredNotFound
          /\ \A e \in Ids(matrix_entries) :
                matrix_entries[e].deleted_at =>
                    /\ \A data \in Updates(EntryFields) :
                          update_matrix_entry(u, e, data, audit_ok) => AnsweredNotFound
                    /\ \A review_status \in ReviewValues :
                          review_matrix_entry(u, e, review_status, "a", audit_ok)
                              => AnsweredNotFound]_vars

-----------------------------------------------------------------------------
(* Claims on the values of matrix entries and documents *)

\* C36: every non-deleted matrix entry has a compliance_status among
\* Compliant, Non-Compliant, Partial and Requires Clarification.
C36_ComplianceStatusInEnum ==
    \A e \in Live(matrix_entries) :
        matrix_entries[e].compliance_status \in ComplianceValues

\* C37: once a forced regeneration has been answered (and no other
\* generation is in flight), every pair whose entry it found still has
\* exactly one non-deleted entry: the old one, or one new one.
C37_ForcedNeverLeavesGap ==
    \A c \in Calls :
        (/\ calls[c].pc = "done" /\ calls[c].force_regenerate
         /\ \A o \in Calls : calls[o].pc \in {"idle", "done"}) =>
            \A old \in calls[c].found :
                Cardinality(NonDeleted(matrix_entries[old].requirement_id,
                                       matrix_entries[old].document_id)) = 1

\* C38: once a project is soft-deleted no step changes a document,
\* requirement or matrix entry of it, and an engineer's update or delete of
\* one of its requirements, or update or review of one of its matrix entries,
\* is answered NotFound.
C38_DeletedProjectIsFrozen ==
    [][\A p \in Ids(projects) :
          projects[p].deleted_at =>
              /\ \A d \in Ids(documents) :
                    documents[d].project_id = p => documents'[d] = documents[d]
              /\ \A r \in Ids(requirements) :
                    requirements[r].project_id = p => requirements'[r] = requirements[r]
              /\ \A e \in Ids(matrix_entries) :
                    ProjectOfEntry(e) = p => matrix_entries'[e] = matrix_entries[e]
              /\ (/\ last'.n # last.n
                  /\ last'.project = p
                  /\ last'.user \in Engineers
                  /\ last'.op \in {"update_requirement", "delete_requirement",
                                   "update_matrix_entry", "review_matrix_entry"}) =>
                    last'.status = "NotFound"]_vars

\* C39: a completed document holds a payload and no extraction_error, and
\* a failed document holds an extraction_error.
C39_PayloadAndErrorMatchStatus ==
    \A d \in Ids(documents) :
        /\ documents[d].extraction_status = "completed" =>
              documents[d].extracted_json /\ ~documents[d].extraction_error
        /\ documents[d].extraction_status = "failed" => documents[d].extraction_error

-----------------------------------------------------------------------------
(* api/v1/users.py: update_user, deactivate_user *)

\* get_current_user selects the user with is_active == True (401 without a
\* row); get_current_admin_user then requires the ADMIN role (403)
get_current_admin_user(u) ==
    IF ~users[u].is_active THEN "Unauthorized"
    ELSE IF users[u].role # "admin" THEN "AccessDenied"
    ELSE "Allowed"

\* select(func.count(User.id)).where(User.role == ADMIN, User.is_active == True)
\* over the rows a transaction sees
admin_count(rows) ==
    Cardinality({u \in DOMAIN rows : rows[u].role = "admin" /\ rows[u].is_active})

\* async_sessionmaker(..., autoflush=False): a query does not flush the
\* pending assignments of the session first
autoflush == FALSE

\* The columns of a row that differ from the stored ones
Dirty(old, new) == {f \in DOMAIN old : new[f] # old[f]}

\* UserUpdate bodies: the fields given and their values (email and full_name
\* are not columns of the model's rows)
UserUpdates ==
    [given : SUBSET {"role", "is_active"}, role : {"admin", "engineer"}, is_active : BOOLEAN]

\* update_user up to `await db.commit()`: the select of the user, the two
\* last-administrator checks and the assignments
update_user_select(c, u, t, data) ==
    /\ CanRequest
    /\ calls[c].pc = "idle"
    /\ LET access == get_current_admin_user(u) IN
       IF access # "Allowed" THEN Refuse(u, "update_user", 0, access)
       ELSE IF t \notin DOMAIN users THEN Refuse(u, "update_user", 0, "NotFound")
       ELSE
         LET user == users[t]
             role_changes == "role" \in data.given /\ data.role # user.role
             removes_admin == role_changes /\ user.role = "admin"
             with_role == IF role_changes THEN [user EXCEPT !.role = data.role] ELSE user
             active_changes == "is_active" \in data.given /\ data.is_active # user.is_active
             deactivates_admin ==
                 active_changes /\ with_role.role = "admin" /\ ~data.is_active
             \* the second count sees the role assigned above only when the
             \* session flushes before the query
             seen == IF autoflush THEN [users EXCEPT ![t] = with_role] ELSE users
             assigned == IF active_changes
                         THEN [with_role EXCEPT !.is_active = data.is_active]
                         ELSE with_role
         IN IF removes_admin /\ admin_count(users) <= 1
            THEN Refuse(u, "update_user", 0, "BadRequest")
            ELSE IF deactivates_admin /\ admin_count(seen) <= 1
            THEN Refuse(u, "update_user", 0, "BadRequest")
            \* `if not changes: return user`
            ELSE IF Dirty(user, assigned) = {} THEN Refuse(u, "update_user", 0, "OK")
            ELSE /\ calls' = [calls EXCEPT ![c] =
                        [IdleCall EXCEPT !.pc = "update_user_commit", !.user = u,
                                         !.target = t, !.user_row = assigned,
                                         !.dirty = Dirty(user, assigned),
                                         !.after = Finished]]
                 /\ UNCHANGED <<db, tasks, last, committed, acked, attempts, settings, users>>

\* The UPDATE of the assigned columns
flush(rows, call) ==
    [rows EXCEPT ![call.target] =
        [f \in DOMAIN @ |-> IF f \in call.dirty THEN call.user_row[f] ELSE @[f]]]

\* `await db.commit()`, then one USER_UPDATED row per changed field
update_user_commit(c, audit_ok) ==
    /\ calls[c].pc = "update_user_commit"
    /\ LET call == calls[c]
           t == call.target
           changes == Ascending({IF f = "role" THEN 1 ELSE 2 : f \in call.dirty})
       IN /\ users' = flush(users, call)
          /\ committed' = committed \cup {Mutation("USER_UPDATED", "user", t)}
          /\ IF audit_ok
             THEN /\ audit_logs' = FieldRows(audit_logs, call.user, "USER_UPDATED", "user", t,
                        [i \in 1..Len(changes) |->
                            LET f == IF changes[i] = 1 THEN "role" ELSE "is_active"
                            IN [field |-> f, old |-> users[t][f], new |-> call.user_row[f]]])
                  /\ acked' = acked \cup {Entity("user", t)}
                  /\ last' = Response(call.user, "update_user", 0, "OK")
                  /\ calls' = [calls EXCEPT ![c] = [call EXCEPT !.pc = "done"]]
             ELSE /\ UNCHANGED <<audit_logs, acked>>
                  /\ last' = Response(call.user, "update_user", 0, "ServerError")
                  /\ calls' = [calls EXCEPT ![c] =
                         [call EXCEPT !.pc = "done", !.audit_failed = TRUE]]
    /\ UNCHANGED <<projects, project_access, documents, requirements, matrix_entries,
                   tasks, attempts, settings>>

\* deactivate_user up to `await db.commit()`: the select of the user, the
\* last-administrator check, the self check and `user.is_active = False`
deactivate_user_select(c, u, t) ==
    /\ CanRequest
    /\ calls[c].pc = "idle"
    /\ LET access == get_current_admin_user(u) IN
       IF access # "Allowed" THEN Refuse(u, "deactivate_user", 0, access)
       ELSE IF t \notin DOMAIN users THEN Refuse(u, "deactivate_user", 0, "NotFound")
       ELSE IF users[t].role = "admin" /\ admin_count(users) <= 1
       THEN Refuse(u, "deactivate_user", 0, "BadRequest")
       ELSE IF t = u THEN Refuse(u, "deactivate_user", 0, "BadRequest")
       ELSE /\ calls' = [calls EXCEPT ![c] =
                   [IdleCall EXCEPT !.pc = "deactivate_user_commit", !.user = u,
                                    !.target = t,
                                    !.user_row = [users[t] EXCEPT !.is_active = FALSE],
                                    !.dirty = Dirty(users[t],
                                                    [users[t] EXCEPT !.is_active = FALSE]),
                                    !.after = Finished]]
            /\ UNCHANGED <<db, tasks, last, committed, acked, attempts, settings, users>>

\* `await db.commit()`, then the USER_DEACTIVATED row
deactivate_user_commit(c, audit_ok) ==
    /\ calls[c].pc = "deactivate_user_commit"
    /\ LET call == calls[c] IN
       /\ users' = flush(users, call)
       /\ calls' = [calls EXCEPT ![c] =
              [call EXCEPT !.pc = "done", !.audit_failed = ~audit_ok]]
       /\ Audited(call.user, "deactivate_user", 0, "USER_DEACTIVATED", "user", call.target,
                  NoDetails, audit_ok)
    /\ UNCHANGED <<projects, project_access, documents, requirements, matrix_entries,
                   tasks, attempts, settings>>

-----------------------------------------------------------------------------
(* Users: user administration in two request slots, from the seeded users *)

\* The ids requests address: the users and one id without a row
UserIds == Users \cup {"nobody"}

NextUsers ==
    \/ \E c \in Calls, u \in Users, t \in UserIds, data \in UserUpdates :
          update_user_select(c, u, t, data)
    \/ \E c \in Calls, audit_ok \in BOOLEAN : update_user_commit(c, audit_ok)
    \/ \E c \in Calls, u \in Users, t \in UserIds : deactivate_user_select(c, u, t)
    \/ \E c \in Calls, audit_ok \in BOOLEAN : deactivate_user_commit(c, audit_ok)

\* The seeded users; in half of the initial states the administrator has
\* promoted eng2 to administrator with update_user
InitUsers ==
    /\ projects = <<>>
    /\ project_access = {}
    /\ documents = <<>>
    /\ requirements = <<>>
    /\ matrix_entries = <<>>
    /\ \E promoted \in BOOLEAN :
          IF promoted
          THEN /\ users = [SeededUsers EXCEPT !["eng2"].role = "admin"]
               /\ audit_logs = <<create_log("admin", "USER_UPDATED", "user", "eng2",
                                     Details(NULL, "role", "engineer", "admin", {}))>>
               /\ committed = {Mutation("USER_UPDATED", "user", "eng2")}
               /\ acked = {Entity("user", "eng2")}
          ELSE /\ users = SeededUsers
               /\ audit_logs = <<>>
               /\ committed = {}
               /\ acked = {}
    /\ calls = [c \in Calls |-> IdleCall]
    /\ tasks = <<>>
    /\ last = NoLast
    /\ attempts = <<>>
    /\ settings \in Settings

SpecUsers == InitUsers /\ [][NextUsers]_vars

\* C40: at least one active administrator exists in every reachable state.
C40_AnActiveAdministrator ==
    \E u \in DOMAIN users : users[u].role = "admin" /\ users[u].is_active

====
